---------------------------- MODULE Spec2Model ----------------------------
(***************************************************************************)
(* Model of server.js, the Amp Task Management proxy: a local HTTP server  *)
(* that translates REST requests under /api/tasks into one RPC-style call  *)
(* {method, params} to the remote host and renders the remote's answer.    *)
(*                                                                         *)
(* JavaScript values are tagged tuples of strings: <<"undefined">>,        *)
(* <<"null">>, <<"str", s>>, <<"bool", b>>, <<"num", n>> and               *)
(* <<"obj", f>> with f a function from the object's own keys to values.    *)
(* A text on the wire is <<"text", kind, ...>>; JSON.parse and             *)
(* JSON.stringify convert between texts and values.                        *)
(***************************************************************************)
EXTENDS Integers, Sequences, FiniteSets, TLC

VARIABLES
    alive,      \* the node process is running
    secrets,    \* content of ~/.local/share/amp/secrets.json (a text, or missing)
    env,        \* process.env: [HOME, AMP_API_KEY]
    pc,         \* per request: where its handler is suspended
    req,        \* per request: the local HTTP request
    bodyRes,    \* per request: how the parseBody promise settled
    call,       \* per request: the {method, params} handed to ampApiRequest
    apiKey,     \* per request: what getApiKey returned to ampApiRequest
    calls,      \* per request: number of https requests issued to the remote
    remote,     \* per request: what the remote answered (a text or a transport error)
    outcome,    \* per request: how the ampApiRequest promise settled
    resp,       \* per request: the local HTTP response written
    nresp       \* per request: number of local responses written

vars == <<alive, secrets, env, pc, req, bodyRes, call, apiKey, calls, remote,
          outcome, resp, nresp>>

---------------------------------------------------------------------------
(* Bounds of the model.                                                    *)

\* number of local requests that may be in flight at once
NReq == 2
\* longest limit query string, in characters
MaxLimitLen == 2

---------------------------------------------------------------------------
(* JavaScript values.                                                      *)

Undef == <<"undefined">>
Null == <<"null">>
Str(s) == <<"str", s>>
Bool(b) == <<"bool", b>>
Num(n) == <<"num", n>>
Obj(f) == <<"obj", f>>
EmptyObj == Obj(<<>>)
None == <<"none">>

IsObj(v) == v[1] = "obj"

\* ToBoolean: what `v || d` and `if (v)` test
Truthy(v) ==
    CASE v = Undef -> FALSE
      [] v = Null -> FALSE
      [] v[1] = "str" -> v[2] # ""
      [] v[1] = "bool" -> v[2] = "true"
      [] v[1] = "num" -> v[2] # 0
      [] OTHER -> TRUE

\* a || b
Or(a, b) == IF Truthy(a) THEN a ELSE b

\* o[k] for a value o that is not null or undefined
Get(o, k) == IF IsObj(o) /\ k \in DOMAIN o[2] THEN o[2][k] ELSE Undef

\* o.k throws a TypeError when o is null or undefined
GetThrows(o) == o \in {Null, Undef}

\* o?.k
OptGet(o, k) == IF GetThrows(o) THEN Undef ELSE Get(o, k)

---------------------------------------------------------------------------
(* Texts and JSON.                                                         *)

EmptyText == <<"text", "empty">>
Garbage == <<"text", "garbage">>
JsonText(v, fmt) == <<"text", "json", fmt, v>>

\* JSON.parse: a SyntaxError on the empty text and on text that is no JSON
JSONparse(t) ==
    IF t[2] = "json" THEN [ok |-> TRUE, v |-> t[4]] ELSE [ok |-> FALSE, v |-> Undef]

\* JSON.stringify writes the compact form
JSONstringify(v) == JsonText(v, "compact")

---------------------------------------------------------------------------
(* Error messages.                                                         *)

NoKeyMsg == "No API key found. Please ensure ~/.local/share/amp/secrets.json exists"
InvalidJsonMsg == "Invalid JSON response from API"
GenericMsg == "API request failed"
BadBodyMsg == "Invalid JSON in request body"
\* path.join(undefined, ...) : ERR_INVALID_ARG_TYPE
PathTypeMsg == "The \"path\" argument must be of type string. Received undefined"
\* body.title on a null body
NullBodyMsg == "Cannot read properties of null (reading 'title')"

---------------------------------------------------------------------------
(* Credential resolution.                                                  *)

SvcKey == "apiKey@https://ampcode.com/"
GenKey == "apiKey"

\* fs.readFileSync(secretsPath) throws when the file is missing
Missing == None

\* the try block of getApiKey: JSON.parse(readFileSync(..)) and the two lookups;
\* any throw (no file, no JSON, a null document) lands in the catch block
TrySecrets(file, envKey) ==
    IF file = Missing THEN [threw |-> TRUE, key |-> Undef]
    ELSE LET p == JSONparse(file) IN
         IF ~p.ok \/ GetThrows(p.v) THEN [threw |-> TRUE, key |-> Undef]
         ELSE [threw |-> FALSE,
               key |-> Or(Or(Get(p.v, SvcKey), Get(p.v, GenKey)), envKey)]

EnvFirstApiKey(file, e) ==
    LET t == TrySecrets(file, Undef) IN
    [threw |-> FALSE, msg |-> "", key |-> Or(e.AMP_API_KEY, t.key)]

\* getApiKey(): path.join outside the try throws when neither HOME nor
\* USERPROFILE is set; the catch block returns the environment override
getApiKey(file, e) ==
    IF ~Truthy(e.HOME) THEN [threw |-> TRUE, msg |-> PathTypeMsg, key |-> Undef]
    ELSE LET t == TrySecrets(file, e.AMP_API_KEY) IN
         [threw |-> FALSE, msg |-> "",
          key |-> IF t.threw THEN e.AMP_API_KEY ELSE t.key]

NoKeyCheck(k) == [reject |-> FALSE, msg |-> ""]

\* ampApiRequest, up to the point where the https request is issued:
\* a throw of getApiKey or a falsy key rejects the promise
KeyCheck(k) ==
    IF k.threw THEN [reject |-> TRUE, msg |-> k.msg]
    ELSE IF ~Truthy(k.key) THEN [reject |-> TRUE, msg |-> NoKeyMsg]
    ELSE [reject |-> FALSE, msg |-> ""]

---------------------------------------------------------------------------
(* parseInt on a query string, a sequence of characters.                   *)

Digits == {"0", "1", "9"}
Alphabet == Digits \cup {"a", "-", " "}

DigitVal(c) == CASE c = "0" -> 0 [] c = "1" -> 1 [] c = "9" -> 9 [] OTHER -> 0

NaN == [ok |-> FALSE, n |-> 0]

RECURSIVE SkipSpace(_)
SkipSpace(s) == IF s # <<>> /\ Head(s) = " " THEN SkipSpace(Tail(s)) ELSE s

\* value of the longest prefix of digits, given the value read so far
RECURSIVE ReadDigits(_, _)
ReadDigits(s, acc) ==
    IF s # <<>> /\ Head(s) \in Digits
    THEN ReadDigits(Tail(s), 10 * acc + DigitVal(Head(s)))
    ELSE acc

\* parseInt(v): String(null) is "null", which has no leading integer
parseInt(v) ==
    IF v = Null THEN NaN
    ELSE LET s == SkipSpace(v)
             neg == s # <<>> /\ Head(s) = "-"
             d == IF neg THEN Tail(s) ELSE s
         IN IF d = <<>> \/ Head(d) \notin Digits THEN NaN
            ELSE [ok |-> TRUE, n |-> (IF neg THEN -1 ELSE 1) * ReadDigits(d, 0)]

---------------------------------------------------------------------------
(* Parameter shaping.                                                      *)

DefaultLimit == 100

NullishLimit(v) == LET p == parseInt(v) IN IF p.ok THEN p.n ELSE DefaultLimit

\* parseInt(url.searchParams.get('limit')) || 100 : NaN and 0 are falsy
ListLimit(v) == LET p == parseInt(v) IN IF p.ok /\ p.n # 0 THEN p.n ELSE DefaultLimit

TruthyReady(v) == Truthy(v)

\* url.searchParams.get('ready') === 'true'
ListReady(v) == v = Str("true")

\* the params of listTasks
ListParams(q) ==
    LET keys == {"limit"}
                \cup (IF Truthy(q.status) THEN {"status"} ELSE {})
                \cup (IF Truthy(q.repoURL) THEN {"repoURL"} ELSE {})
                \cup (IF ListReady(q.ready) THEN {"ready"} ELSE {})
    IN [k \in keys |-> CASE k = "limit" -> Num(ListLimit(q.limit))
                         [] k = "status" -> q.status
                         [] k = "repoURL" -> q.repoURL
                         [] k = "ready" -> Bool("true")]

KeepUndefined(o) == o

\* Object.keys(params).forEach(key => params[key] === undefined && delete params[key])
StripUndefined(o) == [k \in {k \in DOMAIN o : o[k] # Undef} |-> o[k]]

BodyFields == {"title", "description", "status", "repoURL", "dependsOn", "parentID"}

NoDefaultStatus(body) == Get(body, "status")

\* body.status || 'open'
CreateStatus(body) == Or(Get(body, "status"), Str("open"))

\* the params of createTask, for a body that is not null
CreateParams(body) ==
    StripUndefined([k \in BodyFields |->
        IF k = "status" THEN CreateStatus(body) ELSE Get(body, k)])

\* the params of updateTask, for a body that is not null
UpdateParams(taskId, body) ==
    StripUndefined([k \in BodyFields \cup {"taskID"} |->
        IF k = "taskID" THEN taskId ELSE Get(body, k)])

\* the params of getTask and deleteTask
IdParams(taskId) == [k \in {"taskID"} |-> taskId]

---------------------------------------------------------------------------
(* URL and routing.  A pathname is a sequence of tokens: "/" and names.    *)

\* pathname.split('/'): the names between the slashes, "" where there is none
RECURSIVE SplitFrom(_, _)
SplitFrom(p, cur) ==
    IF p = <<>> THEN <<cur>>
    ELSE IF Head(p) = "/" THEN <<cur>> \o SplitFrom(Tail(p), "")
    ELSE SplitFrom(Tail(p), Head(p))

Split(p) == SplitFrom(p, "")

NonEmpty(x) == x # ""

\* url.pathname.split('/').filter(Boolean)
PathParts(p) == SelectSeq(Split(p), NonEmpty)

\* new URL(req.url, base) throws on "//": a scheme-relative URL with no host
URLparse(u) == [ok |-> u.path # <<"/", "/">>, pathname |-> u.path, searchParams |-> u.q]

\* pathParts[2]
TaskId(parts) == IF Len(parts) >= 3 THEN Str(parts[3]) ELSE Undef

\* pathParts[0] === 'api' && pathParts[1] === 'tasks'
UnderTasks(parts) == Len(parts) >= 2 /\ parts[1] = "api" /\ parts[2] = "tasks"

LaxRoute(verb, parts) ==
    IF ~UnderTasks(parts) THEN "none"
    ELSE CASE verb = "GET" /\ ~Truthy(TaskId(parts)) -> "list"
           [] verb = "GET" /\ Truthy(TaskId(parts)) -> "get"
           [] verb = "POST" -> "create"
           [] verb = "PUT" /\ Truthy(TaskId(parts)) -> "update"
           [] verb = "DELETE" -> "delete"
           [] OTHER -> "none"

\* the chain of if statements of the request handler under /api/tasks
Route(verb, parts) ==
    IF ~UnderTasks(parts) THEN "none"
    ELSE CASE verb = "GET" /\ ~Truthy(TaskId(parts)) -> "list"
           [] verb = "GET" /\ Truthy(TaskId(parts)) -> "get"
           [] verb = "POST" /\ ~Truthy(TaskId(parts)) -> "create"
           [] verb = "PUT" /\ Truthy(TaskId(parts)) -> "update"
           [] verb = "DELETE" /\ Truthy(TaskId(parts)) -> "delete"
           [] OTHER -> "none"

RemoteMethod(route) ==
    CASE route = "list" -> "listTasks"
      [] route = "get" -> "getTask"
      [] route = "create" -> "createTask"
      [] route = "update" -> "updateTask"
      [] route = "delete" -> "deleteTask"
      [] OTHER -> ""

\* the status sendJson is given on success: 201 for create, else the default 200
SuccessStatus(route) == IF route = "create" THEN 201 ELSE 200

\* fs.readFileSync(path.join(__dirname, ...)) and getMimeType, for the files of
\* the repository: index.html is a file, .agents a directory
StaticLookup(pathname) ==
    CASE pathname = <<"/">> -> [err |-> "", mime |-> "text/html", file |-> "index.html"]
      [] pathname = <<"/", "index.html">> ->
            [err |-> "", mime |-> "text/html", file |-> "index.html"]
      [] pathname = <<"/", ".agents">> -> [err |-> "EISDIR", mime |-> "", file |-> ""]
      [] OTHER -> [err |-> "ENOENT", mime |-> "", file |-> ""]

EisdirMsg == "EISDIR: illegal operation on a directory, read"

---------------------------------------------------------------------------
(* Local responses.                                                        *)

NoResp == [status |-> 0, ctype |-> "", body |-> None]

\* sendJson(res, data, status)
sendJson(data, status) ==
    [status |-> status, ctype |-> "application/json", body |-> JSONstringify(data)]

ErrBody(msg) == Obj([ok |-> Bool("false"), error |-> Str(msg)])

\* the catch block of the request handler
CatchResponse(msg) == sendJson(ErrBody(msg), 500)

HealthBody == Obj([ok |-> Bool("true"), timestamp |-> Str("now")])

---------------------------------------------------------------------------
(* One request's handler, as steps on the record of its state.             *)

NoQuery == [limit |-> Null, status |-> Null, repoURL |-> Null, ready |-> Null]
IdleReq == [verb |-> "", url |-> [path |-> <<>>, q |-> NoQuery], body |-> None]
NoSettle == [kind |-> "none", v |-> Undef, msg |-> ""]
NoCall == [method |-> "", params |-> <<>>]
NoKey == [threw |-> FALSE, msg |-> "", key |-> None]

Resolve(v) == [kind |-> "resolve", v |-> v, msg |-> ""]
Reject(msg) == [kind |-> "reject", v |-> Undef, msg |-> msg]

Idle ==
    [pc |-> "idle", req |-> IdleReq, bodyRes |-> NoSettle, call |-> NoCall,
     apiKey |-> NoKey, calls |-> 0, remote |-> None, outcome |-> NoSettle,
     resp |-> NoResp, nresp |-> 0]

\* res.writeHead(..); res.end(..): the handler returns
Respond(s, response) ==
    [s EXCEPT !.pc = "done", !.resp = response, !.nresp = @ + 1]

\* ampApiRequest(method, params) up to its first suspension: the key is read,
\* and either the promise is rejected or the https request is written
StartCall(s, method, params, file, e) ==
    LET k == getApiKey(file, e)
        c == KeyCheck(k)
        t == [s EXCEPT !.call = [method |-> method, params |-> params], !.apiKey = k]
    IN IF c.reject
       THEN [t EXCEPT !.pc = "remoteDone", !.outcome = Reject(c.msg)]
       ELSE [t EXCEPT !.pc = "awaitRemote", !.calls = @ + 1]

\* health check and static files: what follows the /api/tasks block
Fallthrough(s, pathname) ==
    IF pathname = <<"/", "api", "/", "health">> THEN Respond(s, sendJson(HealthBody, 200))
    ELSE LET f == StaticLookup(pathname) IN
         CASE f.err = "" ->
                Respond(s, [status |-> 200, ctype |-> f.mime, body |-> <<"file", f.file>>])
           [] f.err = "ENOENT" ->
                Respond(s, [status |-> 404, ctype |-> "text/plain",
                            body |-> <<"text", "plain", "Not Found">>])
           [] OTHER -> Respond(s, CatchResponse(EisdirMsg))

\* the request handler from its start to its first suspension, for a request
\* whose URL parses
OnRequest(s, file, e) ==
    LET u == URLparse(s.req.url)
        parts == PathParts(u.pathname)
        route == Route(s.req.verb, parts)
    IN IF s.req.verb = "OPTIONS"
       THEN Respond(s, [status |-> 204, ctype |-> "", body |-> EmptyText])
       ELSE CASE route = "list" ->
                   StartCall(s, "listTasks", ListParams(u.searchParams), file, e)
              [] route \in {"get", "delete"} ->
                   StartCall(s, RemoteMethod(route), IdParams(TaskId(parts)), file, e)
              [] route \in {"create", "update"} -> [s EXCEPT !.pc = "awaitBody"]
              [] OTHER -> Fallthrough(s, u.pathname)

\* the 'end' callback of parseBody: body ? JSON.parse(body) : {}
BodyOutcome(text) ==
    IF text = EmptyText THEN Resolve(EmptyObj)
    ELSE LET p == JSONparse(text) IN
         IF p.ok THEN Resolve(p.v) ELSE Reject(BadBodyMsg)

\* the handler after `await parseBody(req)`, for create and update
AfterBody(s, file, e) ==
    LET parts == PathParts(URLparse(s.req.url).pathname)
        route == Route(s.req.verb, parts)
        body == s.bodyRes.v
    IN IF s.bodyRes.kind = "reject" THEN Respond(s, CatchResponse(s.bodyRes.msg))
       ELSE IF GetThrows(body) THEN Respond(s, CatchResponse(NullBodyMsg))
       ELSE IF route = "create"
       THEN StartCall(s, "createTask", CreateParams(body), file, e)
       ELSE StartCall(s, "updateTask", UpdateParams(TaskId(parts), body), file, e)

UncaughtEnd(text) ==
    LET p == JSONparse(text) IN
    IF ~p.ok \/ GetThrows(p.v) THEN [kind |-> "throw", v |-> Undef, msg |-> "SyntaxError"]
    ELSE IF ~Truthy(Get(p.v, "ok")) THEN Reject(GenericMsg)
    ELSE Resolve(p.v)

AlwaysGenericEnd(text) ==
    LET p == JSONparse(text) IN
    IF ~p.ok \/ GetThrows(p.v) THEN Reject(InvalidJsonMsg)
    ELSE IF ~Truthy(Get(p.v, "ok")) THEN Reject(GenericMsg)
    ELSE Resolve(p.v)

\* the message of new Error(x) for a string x
ErrorMessage(x) == x[2]

\* the 'end' callback of the https response: parsed.ok on a null document
\* throws inside the try, as a SyntaxError of JSON.parse does
EndOutcome(text) ==
    LET p == JSONparse(text) IN
    IF ~p.ok \/ GetThrows(p.v) THEN Reject(InvalidJsonMsg)
    ELSE IF ~Truthy(Get(p.v, "ok"))
    THEN Reject(ErrorMessage(Or(OptGet(Get(p.v, "error"), "message"), Str(GenericMsg))))
    ELSE Resolve(p.v)

RetryOnError(s, err) ==
    IF s.calls < 2 THEN [s EXCEPT !.calls = @ + 1]
    ELSE [s EXCEPT !.pc = "remoteDone", !.remote = <<"error", err>>,
                   !.outcome = Reject(err)]

\* req.on('error', reject)
OnError(s, err) ==
    [s EXCEPT !.pc = "remoteDone", !.remote = <<"error", err>>, !.outcome = Reject(err)]

\* the handler after `await ampApiRequest(..)`: sendJson on success, the catch
\* block on failure
AfterRemote(s) ==
    LET route == Route(s.req.verb, PathParts(URLparse(s.req.url).pathname)) IN
    IF s.outcome.kind = "resolve"
    THEN Respond(s, sendJson(s.outcome.v, SuccessStatus(route)))
    ELSE Respond(s, CatchResponse(s.outcome.msg))

---------------------------------------------------------------------------
(* The inputs the environment may supply.                                  *)

Reqs == 1 .. NReq

Verbs == {"GET", "POST", "PUT", "DELETE", "OPTIONS", "PATCH"}

TasksPath == <<"/", "api", "/", "tasks">>
TaskPath == <<"/", "api", "/", "tasks", "/", "85">>

Pathnames ==
    {<<"/">>, <<"/", "/">>, <<"/", "index.html">>, <<"/", ".agents">>,
     <<"/", "api", "/", "health">>, TasksPath, TasksPath \o <<"/">>, TaskPath,
     TaskPath \o <<"/", "x">>, <<"/", "api", "/", "/", "tasks", "/", "85">>,
     <<"/", "api", "/", "task", "/", "85">>, <<"/", "tasks", "/", "85">>}

Mk(verb, path, q, body) == [verb |-> verb, url |-> [path |-> path, q |-> q], body |-> body]

Compact(v) == JsonText(v, "compact")

TitleOnly == Obj([title |-> Str("t")])

SmallBodies == {EmptyText, Garbage, Compact(Null), Compact(TitleOnly)}

BodiesFor(verb) == IF verb \in {"POST", "PUT"} THEN SmallBodies ELSE {EmptyText}

\* every verb on every pathname
RouteInputs ==
    UNION {{Mk(v, p, NoQuery, b) : b \in BodiesFor(v)} : v \in Verbs, p \in Pathnames}

\* one request of each kind, for runs with several requests in flight
FewInputs ==
    {Mk("GET", TasksPath, NoQuery, EmptyText),
     Mk("POST", TasksPath, NoQuery, Compact(TitleOnly)),
     Mk("PUT", TaskPath, NoQuery, Garbage),
     Mk("GET", <<"/", "/">>, NoQuery, EmptyText)}

\* the strings of at most n characters
RECURSIVE StringsUpTo(_)
StringsUpTo(n) ==
    IF n = 0 THEN {<<>>}
    ELSE LET shorter == StringsUpTo(n - 1) IN
         shorter \cup {Append(x, c) : x \in shorter, c \in Alphabet}

LimitValues == {Null} \cup StringsUpTo(MaxLimitLen)

\* every limit with and without filters, and every combination of filters
Queries ==
    [limit : LimitValues, status : {Null, Str("open")}, repoURL : {Null},
     ready : {Null, Str("true")}]
    \cup [limit : {Null, <<"9">>},
          status : {Null, Str(""), Str("open")},
          repoURL : {Null, Str(""), Str("r")},
          ready : {Null, Str("true"), Str("false"), Str("TRUE"), Str("")}]

\* a JSON document holds the keys it was given: none has the value undefined
Present(g) == [k \in {k \in DOMAIN g : g[k] # Undef} |-> g[k]]

BodyObjects ==
    {Obj(Present([title |-> a, description |-> b, status |-> c, repoURL |-> d,
                  dependsOn |-> e, parentID |-> f])) :
        a \in {Undef, Null, Str(""), Str("t")},
        b \in {Undef, Null, Str("d")},
        c \in {Undef, Null, Str(""), Str("open"), Str("completed"), Bool("false")},
        d \in {Undef, Str("r")},
        e \in {Undef, <<"arr", "84">>},
        f \in {Undef, Null}}

ShapeBodies ==
    {EmptyText, Garbage, Compact(Null), Compact(Str("t"))}
    \cup {Compact(o) : o \in BodyObjects}

\* list, create and update requests with every combination of fields
ShapeInputs ==
    {Mk("GET", TasksPath, q, EmptyText) : q \in Queries}
    \cup {Mk("POST", TasksPath, NoQuery, b) : b \in ShapeBodies}
    \cup {Mk("PUT", TaskPath, NoQuery, b) : b \in ShapeBodies}

Envelope(ok, rest) == Obj([k \in {"ok"} \cup DOMAIN rest |->
                             IF k = "ok" THEN Bool(ok) ELSE rest[k]])

OkEnvelope == Envelope("true", [data |-> Str("task")])
FailWith(m) == Envelope("false", [error |-> Obj([message |-> m])])

RemoteTexts ==
    {Garbage, EmptyText, Compact(Null), Compact(Str("oops")), Compact(EmptyObj),
     Compact(OkEnvelope), JsonText(OkEnvelope, "pretty"),
     Compact(FailWith(Str("x"))), JsonText(FailWith(Str("x")), "pretty"),
     Compact(FailWith(Str(""))), Compact(FailWith(Str(GenericMsg))),
     Compact(Envelope("false", <<>>)), Compact(Envelope("false", [error |-> Null])),
     Compact(Envelope("false", [error |-> Str("down")]))}

FewTexts == {Garbage, JsonText(OkEnvelope, "pretty"), Compact(FailWith(Str("x")))}

TransportErrors == {"connect ECONNREFUSED", "socket hang up"}

SecretsObjects ==
    {Obj(Present([k \in {SvcKey, GenKey} |-> IF k = SvcKey THEN a ELSE b])) :
        a \in {Undef, Null, Str(""), Str("ksvc")},
        b \in {Undef, Str(""), Str("kgen")}}

AllSecrets ==
    {Missing, Garbage, EmptyText, Compact(Null), Compact(Str("ksvc"))}
    \cup {Compact(o) : o \in SecretsObjects}

GoodSecrets == Compact(Obj([k \in {SvcKey} |-> Str("ksvc")]))

FewSecrets == {Missing, GoodSecrets}

HomeDir == Str("/home/u")

AllEnvs == [HOME : {Undef, HomeDir}, AMP_API_KEY : {Undef, Str(""), Str("kenv")}]

GoodEnv == [HOME |-> HomeDir, AMP_API_KEY |-> Undef]

---------------------------------------------------------------------------
(* The state machine.                                                      *)

Cur(r) ==
    [pc |-> pc[r], req |-> req[r], bodyRes |-> bodyRes[r], call |-> call[r],
     apiKey |-> apiKey[r], calls |-> calls[r], remote |-> remote[r],
     outcome |-> outcome[r], resp |-> resp[r], nresp |-> nresp[r]]

Set(r, n) ==
    /\ pc' = [pc EXCEPT ![r] = n.pc]
    /\ req' = [req EXCEPT ![r] = n.req]
    /\ bodyRes' = [bodyRes EXCEPT ![r] = n.bodyRes]
    /\ call' = [call EXCEPT ![r] = n.call]
    /\ apiKey' = [apiKey EXCEPT ![r] = n.apiKey]
    /\ calls' = [calls EXCEPT ![r] = n.calls]
    /\ remote' = [remote EXCEPT ![r] = n.remote]
    /\ outcome' = [outcome EXCEPT ![r] = n.outcome]
    /\ resp' = [resp EXCEPT ![r] = n.resp]
    /\ nresp' = [nresp EXCEPT ![r] = n.nresp]

InitWith(files, envs) ==
    /\ alive = TRUE
    /\ secrets \in files
    /\ env \in envs
    /\ pc = [r \in Reqs |-> Idle.pc]
    /\ req = [r \in Reqs |-> Idle.req]
    /\ bodyRes = [r \in Reqs |-> Idle.bodyRes]
    /\ call = [r \in Reqs |-> Idle.call]
    /\ apiKey = [r \in Reqs |-> Idle.apiKey]
    /\ calls = [r \in Reqs |-> Idle.calls]
    /\ remote = [r \in Reqs |-> Idle.remote]
    /\ outcome = [r \in Reqs |-> Idle.outcome]
    /\ resp = [r \in Reqs |-> Idle.resp]
    /\ nresp = [r \in Reqs |-> Idle.nresp]

\* a promise has settled and its continuation has not run yet: the microtask
\* queue is drained before the event loop takes the next event
MicrotaskPending == \E r \in Reqs : pc[r] \in {"bodyDone", "remoteDone"}

EventLoopReady == alive /\ ~MicrotaskPending

\* a request arrives and its handler runs to its first suspension. A URL that
\* does not parse throws outside the try block: the handler's promise is
\* rejected with nobody to handle it, which ends the process or only warns,
\* by the runtime's unhandled-rejection mode; the request is never answered
Arrive(r, inputs) ==
    /\ EventLoopReady
    /\ pc[r] = "idle"
    /\ \E in \in inputs :
         LET s == [Cur(r) EXCEPT !.req = in] IN
         IF in.verb # "OPTIONS" /\ ~URLparse(in.url).ok
         THEN /\ Set(r, [s EXCEPT !.pc = "hung"])
              /\ alive' \in BOOLEAN
         ELSE /\ Set(r, OnRequest(s, secrets, env))
              /\ alive' = alive
    /\ UNCHANGED <<secrets, env>>

\* the local request's body has been read
BodyEnd(r) ==
    /\ EventLoopReady
    /\ pc[r] = "awaitBody"
    /\ Set(r, [Cur(r) EXCEPT !.pc = "bodyDone", !.bodyRes = BodyOutcome(req[r].body)])
    /\ UNCHANGED <<alive, secrets, env>>

\* the local request fails while its body is read: req.on('error', reject)
BodyError(r) ==
    /\ EventLoopReady
    /\ pc[r] = "awaitBody"
    /\ Set(r, [Cur(r) EXCEPT !.pc = "bodyDone", !.bodyRes = Reject("aborted")])
    /\ UNCHANGED <<alive, secrets, env>>

\* the continuation of `await parseBody(req)`
ResumeBody(r) ==
    /\ alive
    /\ pc[r] = "bodyDone"
    /\ Set(r, AfterBody(Cur(r), secrets, env))
    /\ UNCHANGED <<alive, secrets, env>>

\* the remote's response has been read to its end; an exception that escapes
\* the callback is uncaught and ends the process
RemoteEnd(r, texts) ==
    /\ EventLoopReady
    /\ pc[r] = "awaitRemote"
    /\ \E text \in texts :
         LET o == EndOutcome(text) IN
         IF o.kind = "throw"
         THEN /\ Set(r, [Cur(r) EXCEPT !.pc = "hung", !.remote = text])
              /\ alive' = FALSE
         ELSE /\ Set(r, [Cur(r) EXCEPT !.pc = "remoteDone", !.remote = text,
                                       !.outcome = o])
              /\ alive' = alive
    /\ UNCHANGED <<secrets, env>>

\* the https request fails: connection refused, TLS failure, reset
RemoteError(r) ==
    /\ EventLoopReady
    /\ pc[r] = "awaitRemote"
    /\ \E err \in TransportErrors : Set(r, OnError(Cur(r), err))
    /\ UNCHANGED <<alive, secrets, env>>

\* the continuation of `await ampApiRequest(..)`
ResumeRemote(r) ==
    /\ alive
    /\ pc[r] = "remoteDone"
    /\ Set(r, AfterRemote(Cur(r)))
    /\ UNCHANGED <<alive, secrets, env>>

\* the answered request is over; the next one takes its place
Recycle(r) ==
    /\ EventLoopReady
    /\ pc[r] = "done"
    /\ Set(r, Idle)
    /\ UNCHANGED <<alive, secrets, env>>

\* another process rewrites or removes the secrets file
FileChange(files) ==
    /\ alive
    /\ secrets' \in files \ {secrets}
    /\ UNCHANGED <<alive, env, pc, req, bodyRes, call, apiKey, calls, remote,
                   outcome, resp, nresp>>

\* the steps of the server for the requests R
Serve(R, inputs, texts) ==
    \/ \E r \in R : Arrive(r, inputs)
    \/ \E r \in R : BodyEnd(r)
    \/ \E r \in R : BodyError(r)
    \/ \E r \in R : ResumeBody(r)
    \/ \E r \in R : RemoteEnd(r, texts)
    \/ \E r \in R : RemoteError(r)
    \/ \E r \in R : ResumeRemote(r)
    \/ \E r \in R : Recycle(r)

\* continuations of settled promises always run
Fairness(R) ==
    /\ WF_vars(\E r \in R : ResumeBody(r))
    /\ WF_vars(\E r \in R : ResumeRemote(r))

\* several requests in flight at once
Init == InitWith(FewSecrets, {GoodEnv})
Next == Serve(Reqs, FewInputs, FewTexts) \/ FileChange(FewSecrets)
Spec == Init /\ [][Next]_vars /\ Fairness(Reqs)

\* one request at a time: every verb on every path, every secrets file and
\* environment, every remote answer
InitOne == InitWith(AllSecrets, AllEnvs)
NextOne == Serve({1}, RouteInputs, RemoteTexts) \/ FileChange(AllSecrets)
SpecOne == InitOne /\ [][NextOne]_vars

\* one request at a time: every shape of query and body
InitShape == InitWith({GoodSecrets}, {GoodEnv})
NextShape == Serve({1}, ShapeInputs, FewTexts)
SpecShape == InitShape /\ [][NextShape]_vars

---------------------------------------------------------------------------
(* Properties: parameter shaping (checked under SpecShape).                *)

\* the requests whose handler has handed a call to ampApiRequest
Called(m) == {r \in Reqs : call[r].method = m}

\* params[k], undefined when the params hold no key k
Param(r, k) == IF k \in DOMAIN call[r].params THEN call[r].params[k] ELSE Undef

\* the JSON document of the local request's body, <<>> when it is no object
SuppliedBody(r) ==
    IF req[r].body[2] = "json" /\ req[r].body[4][1] = "obj" THEN req[r].body[4][2] ELSE <<>>

\* the local request supplies field k: in its query, its body or its path
Supplied(r, k) ==
    CASE call[r].method = "listTasks" -> req[r].url.q[k] # Null
      [] k = "taskID" -> call[r].method = "updateTask"
      [] OTHER -> k \in DOMAIN SuppliedBody(r)

\* C1 as stated: on create, update and list no outbound key has a null or
\* undefined value, and every outbound key was supplied by the local request.
C1_Original ==
    \A r \in Called("createTask") \cup Called("updateTask") \cup Called("listTasks") :
        \A k \in DOMAIN call[r].params :
            /\ call[r].params[k] \notin {Null, Undef}
            /\ Supplied(r, k)

\* C1 (amended): on create, update and list no outbound key has the value
\* undefined; every outbound key was supplied by the local request, except
\* status on create and limit on list, which carry the defaults "open" and 100
\* when the request does not supply them; a null is sent only for a body field
\* the request supplied as an explicit null.
C1_ParamsKeys ==
    \A r \in Called("createTask") \cup Called("updateTask") \cup Called("listTasks") :
        \A k \in DOMAIN call[r].params :
            /\ call[r].params[k] # Undef
            /\ \/ Supplied(r, k)
               \/ /\ call[r].method = "createTask"
                  /\ k = "status"
                  /\ call[r].params[k] = Str("open")
               \/ /\ call[r].method = "listTasks"
                  /\ k = "limit"
                  /\ call[r].params[k] = Num(100)
            /\ call[r].params[k] = Null =>
                  /\ call[r].method \in {"createTask", "updateTask"}
                  /\ k \in DOMAIN SuppliedBody(r)
                  /\ SuppliedBody(r)[k] = Null

\* an update whose body supplies a description and no title has been sent
C1_Witness ==
    \E r \in Called("updateTask") :
        /\ calls[r] = 1
        /\ "description" \in DOMAIN SuppliedBody(r)
        /\ "title" \notin DOMAIN SuppliedBody(r)
        /\ DOMAIN call[r].params = {"taskID", "description"}

\* the local response is the remote's envelope: the same JSON document
EchoesRemote(r, status) ==
    /\ resp[r].status = status
    /\ resp[r].ctype = "application/json"
    /\ resp[r].body[2] = "json"
    /\ remote[r][2] = "json"
    /\ resp[r].body[4] = remote[r][4]

\* C6 as stated: a create whose body supplies only title = t sends exactly
\* {title: t, status: "open"}; status is "open" when the body does not supply
\* it and the supplied value unchanged when it does; on remote success the
\* response is 201 with the remote's envelope.
C6_Original ==
    \A r \in Called("createTask") :
        /\ DOMAIN SuppliedBody(r) = {"title"} =>
              call[r].params = [k \in {"title", "status"} |->
                  IF k = "title" THEN SuppliedBody(r)["title"] ELSE Str("open")]
        /\ "status" \notin DOMAIN SuppliedBody(r) => Param(r, "status") = Str("open")
        /\ "status" \in DOMAIN SuppliedBody(r) =>
              Param(r, "status") = SuppliedBody(r)["status"]
        /\ pc[r] = "done" /\ outcome[r].kind = "resolve" => EchoesRemote(r, 201)

\* what JavaScript takes for false: null, "", false (and 0, NaN, undefined)
Falsy(v) == v \in {Undef, Null, Str(""), Bool("false"), Num(0)}

\* C6 (amended): a create whose body supplies only title = t sends exactly
\* {title: t, status: "open"}; status is "open" when the body does not supply
\* it or supplies a falsy value (null, "", false), and the supplied value
\* unchanged otherwise; on remote success the response is 201 with the
\* remote's envelope.
C6_CreateDefaults ==
    \A r \in Called("createTask") :
        /\ DOMAIN SuppliedBody(r) = {"title"} =>
              call[r].params = [k \in {"title", "status"} |->
                  IF k = "title" THEN SuppliedBody(r)["title"] ELSE Str("open")]
        /\ "status" \notin DOMAIN SuppliedBody(r) => Param(r, "status") = Str("open")
        /\ "status" \in DOMAIN SuppliedBody(r) =>
              Param(r, "status") =
                  IF Falsy(SuppliedBody(r)["status"]) THEN Str("open")
                  ELSE SuppliedBody(r)["status"]
        /\ pc[r] = "done" /\ outcome[r].kind = "resolve" => EchoesRemote(r, 201)

\* a create with only a title has been answered 201 with the remote's envelope
C6_Witness ==
    \E r \in Called("createTask") :
        /\ SuppliedBody(r) = [title |-> Str("t")]
        /\ pc[r] = "done"
        /\ outcome[r].kind = "resolve"
        /\ resp[r].status = 201
        /\ call[r].params = [title |-> Str("t"), status |-> Str("open")]

\* the string is an integer in decimal: an optional minus and digits only
IsInteger(v) ==
    /\ v # Null
    /\ LET d == IF v # <<>> /\ v[1] = "-" THEN Tail(v) ELSE v IN
       d # <<>> /\ \A i \in 1 .. Len(d) : d[i] \in Digits

RECURSIVE DecimalValue(_)
DecimalValue(d) ==
    IF d = <<>> THEN 0
    ELSE 10 * DecimalValue(SubSeq(d, 1, Len(d) - 1)) + DigitVal(d[Len(d)])

IntegerValue(v) == IF v[1] = "-" THEN 0 - DecimalValue(Tail(v)) ELSE DecimalValue(v)

SentLimit(r) == Param(r, "limit")

\* C7 as stated: the limit sent is the integer value of the limit parameter;
\* an absent or non-numeric limit, and no other, is replaced by 100.
C7_Original ==
    \A r \in Called("listTasks") :
        LET v == req[r].url.q.limit IN
        IF IsInteger(v) THEN SentLimit(r) = Num(IntegerValue(v))
        ELSE SentLimit(r) = Num(100)

\* C7 (amended): the limit sent is what parseInt reads from the parameter, the
\* integer at its start after optional blanks and a sign (limit=1a sends 1);
\* it is 100 when the parameter is absent, starts with no integer, or reads as
\* 0 (limit=0, limit=00, limit=-0); a limit that starts with no integer gives
\* the same remote call as no limit; a limit that is a non-zero integer is
\* sent as it is.
C7_LimitDefault ==
    \A r \in Called("listTasks") :
        LET v == req[r].url.q.limit
            p == parseInt(v)
        IN /\ SentLimit(r) = Num(IF p.ok /\ p.n # 0 THEN p.n ELSE 100)
           /\ ~p.ok => call[r].params = ListParams([req[r].url.q EXCEPT !.limit = Null])
           /\ IsInteger(v) /\ IntegerValue(v) # 0 => SentLimit(r) = Num(IntegerValue(v))
           /\ v = Null \/ (v # <<>> /\ v[1] = "a") \/ v = <<>> => SentLimit(r) = Num(100)
           /\ v = <<"0">> => SentLimit(r) = Num(100)
           /\ v = <<"1", "a">> => SentLimit(r) = Num(1)
           /\ v = <<" ", "9">> => SentLimit(r) = Num(9)
           /\ v = <<"-", "9">> => SentLimit(r) = Num(0 - 9)

\* a list with limit=19 has been sent with limit 19
C7_Witness ==
    \E r \in Called("listTasks") :
        /\ calls[r] = 1
        /\ req[r].url.q.limit = <<"1", "9">>
        /\ SentLimit(r) = Num(19)

\* C8: a list request sends ready: true exactly when the ready parameter is
\* the string "true"; otherwise, the parameter absent included, the params
\* hold no ready key, and ready is never sent as false.
C8_ReadyOnlyTrue ==
    \A r \in Called("listTasks") :
        /\ "ready" \in DOMAIN call[r].params <=> req[r].url.q.ready = Str("true")
        /\ "ready" \in DOMAIN call[r].params => Param(r, "ready") = Bool("true")

\* a list with ready=true has been sent with ready: true
C8_Witness ==
    \E r \in Called("listTasks") :
        /\ calls[r] = 1
        /\ req[r].url.q.ready = Str("true")
        /\ Param(r, "ready") = Bool("true")

---------------------------------------------------------------------------
(* Properties: routing, credentials and errors (checked under SpecOne).    *)

\* the 500 the catch block writes for an error with this message
Error500(r, msg) ==
    resp[r] = [status |-> 500, ctype |-> "application/json",
               body |-> <<"text", "json", "compact",
                          Obj([ok |-> Bool("false"), error |-> Str(msg)])>>]

NotFound404(r) ==
    resp[r] = [status |-> 404, ctype |-> "text/plain",
               body |-> <<"text", "plain", "Not Found">>]

Parts(r) == PathParts(req[r].url.path)
Under(r) == Len(Parts(r)) >= 2 /\ Parts(r)[1] = "api" /\ Parts(r)[2] = "tasks"
HasId(r) == Len(Parts(r)) >= 3
PathId(r) == Str(Parts(r)[3])

\* the routing table: the remote method for a verb and the presence of an id
Table(verb, hasId) ==
    CASE verb = "GET" /\ ~hasId -> "listTasks"
      [] verb = "GET" /\ hasId -> "getTask"
      [] verb = "POST" /\ ~hasId -> "createTask"
      [] verb = "PUT" /\ hasId -> "updateTask"
      [] verb = "DELETE" /\ hasId -> "deleteTask"
      [] OTHER -> ""

\* the params carry the path id as the table says
IdParamsOk(r, m) ==
    /\ m \in {"getTask", "deleteTask"} => call[r].params = [taskID |-> PathId(r)]
    /\ m = "updateTask" => Param(r, "taskID") = PathId(r)

\* C2 as stated: an answered request under /api/tasks has called the remote
\* method of the table, with the path id as taskID, and any other verb/id
\* combination has called nothing and was handled as a static file.
C2_Original ==
    \A r \in Reqs :
        pc[r] = "done" /\ Under(r) =>
            LET m == Table(req[r].verb, HasId(r)) IN
            IF m # ""
            THEN calls[r] = 1 /\ call[r].method = m /\ IdParamsOk(r, m)
            ELSE calls[r] = 0 /\ call[r] = NoCall /\ NotFound404(r)

\* C2 (amended): under /api/tasks the handler chosen depends only on the verb
\* and the presence of a path id, as the table says, with the path id as
\* taskID (delete and get: params exactly {taskID}); the remote call is issued
\* when a credential resolves and, for POST and PUT, once the body is read and
\* parses to a JSON value other than null. Any other verb/id combination but
\* OPTIONS issues no remote call and is handled as a static file (404);
\* OPTIONS is answered 204 before any routing.
C2_Routing ==
    \A r \in Reqs :
        pc[r] \notin {"idle", "hung"} /\ Under(r) =>
            LET m == Table(req[r].verb, HasId(r)) IN
            IF req[r].verb = "OPTIONS"
            THEN call[r] = NoCall /\ calls[r] = 0 /\ resp[r].status = 204
            ELSE IF m = ""
            THEN call[r] = NoCall /\ calls[r] = 0 /\ pc[r] = "done" /\ NotFound404(r)
            ELSE /\ call[r].method \in {"", m}
                 /\ call[r].method = m => IdParamsOk(r, m)
                 /\ calls[r] = 1 <=> (call[r].method = m /\ Truthy(apiKey[r].key))
                 /\ calls[r] \in {0, 1}
                 /\ call[r].method = "" =>
                      /\ m \in {"createTask", "updateTask"}
                      /\ \/ pc[r] \in {"awaitBody", "bodyDone"}
                         \/ /\ pc[r] = "done"
                            /\ bodyRes[r].kind = "reject" \/ bodyRes[r].v = Null
                            /\ resp[r].status = 500

\* DELETE /api/tasks/85 has called deleteTask with {taskID: "85"}, and was
\* answered
C2_Witness ==
    \E r \in Reqs :
        /\ req[r].verb = "DELETE"
        /\ req[r].url.path = TaskPath
        /\ pc[r] = "done"
        /\ calls[r] = 1
        /\ call[r] = [method |-> "deleteTask", params |-> [taskID |-> Str("85")]]

\* ampApiRequest is entered in this step
Started(r) == call[r].method = "" /\ call'[r].method # ""

\* the document of the secrets file, when it can be read and is JSON
FileDoc == IF secrets # Missing /\ secrets[2] = "json" THEN secrets[4] ELSE Undef
FileHas(k) == FileDoc[1] = "obj" /\ k \in DOMAIN FileDoc[2]
FileVal(k) == FileDoc[2][k]
FileUsable(k) == FileHas(k) /\ ~Falsy(FileVal(k))

RemoteDoc(r) == IF remote[r][1] = "text" /\ remote[r][2] = "json" THEN remote[r][4] ELSE Undef
HasMessage(r) ==
    /\ RemoteDoc(r)[1] = "obj"
    /\ "ok" \in DOMAIN RemoteDoc(r)[2]
    /\ RemoteDoc(r)[2]["ok"] = Bool("false")
    /\ "error" \in DOMAIN RemoteDoc(r)[2]
    /\ RemoteDoc(r)[2]["error"][1] = "obj"
    /\ "message" \in DOMAIN RemoteDoc(r)[2]["error"][2]
    /\ RemoteDoc(r)[2]["error"][2]["message"][1] = "str"
Message(r) == RemoteDoc(r)[2]["error"][2]["message"][2]

\* C4 as stated: an envelope with ok = false and error message x fails the call
\* with message x, for every string x, and is answered 500 {ok: false,
\* error: x}; the generic message appears only when there is no message.
C4_Original ==
    \A r \in Reqs :
        /\ HasMessage(r) =>
              /\ outcome[r] = [kind |-> "reject", v |-> Undef, msg |-> Message(r)]
              /\ pc[r] = "done" => Error500(r, Message(r))
        /\ outcome[r].kind = "reject" /\ outcome[r].msg = GenericMsg =>
              ~HasMessage(r) \/ Message(r) = GenericMsg

\* C4 (amended): an envelope with ok = false and a non-empty error message x
\* fails the call with message x and is answered 500 {ok: false, error: x};
\* an empty message is taken as none; the generic message appears only when
\* the envelope carries no message or an empty one.
C4_ErrorMessage ==
    \A r \in Reqs :
        /\ HasMessage(r) /\ Message(r) # "" =>
              /\ outcome[r] = [kind |-> "reject", v |-> Undef, msg |-> Message(r)]
              /\ pc[r] = "done" => Error500(r, Message(r))
        /\ HasMessage(r) /\ Message(r) = "" =>
              /\ outcome[r] = [kind |-> "reject", v |-> Undef, msg |-> GenericMsg]
              /\ pc[r] = "done" => Error500(r, GenericMsg)
        /\ outcome[r].kind = "reject" /\ outcome[r].msg = GenericMsg =>
              ~HasMessage(r) \/ Message(r) \in {"", GenericMsg}

\* the envelope {ok: false, error: {message: "x"}} was answered 500 with "x"
C4_Witness ==
    \E r \in Reqs :
        /\ HasMessage(r)
        /\ Message(r) = "x"
        /\ pc[r] = "done"
        /\ Error500(r, "x")

InvalidRemote(r) == remote[r][1] = "text" /\ remote[r][2] # "json"

\* C5: a remote body that is no JSON fails the call with 'Invalid JSON
\* response from API', answered 500 {ok: false, error: <message>}; the
\* process stays up and takes the next request.
C5_InvalidJson ==
    \A r \in Reqs :
        InvalidRemote(r) =>
            /\ alive
            /\ outcome[r] = [kind |-> "reject", v |-> Undef, msg |-> InvalidJsonMsg]
            /\ pc[r] \in {"remoteDone", "done"}
            /\ pc[r] = "done" =>
                  /\ Error500(r, InvalidJsonMsg)
                  /\ nresp[r] = 1
                  /\ ENABLED Recycle(r)

\* a remote body that is no JSON was answered 500, the server still running
C5_Witness ==
    \E r \in Reqs :
        /\ remote[r] = Garbage
        /\ pc[r] = "done"
        /\ Error500(r, InvalidJsonMsg)
        /\ alive

---------------------------------------------------------------------------
(* Properties: requests in flight together (checked under Spec).           *)

\* the response reports how the remote call ended
ReportsOutcome(r) ==
    IF outcome[r].kind = "resolve"
    THEN /\ resp[r].status = IF call[r].method = "createTask" THEN 201 ELSE 200
         /\ resp[r].body = <<"text", "json", "compact", outcome[r].v>>
    ELSE Error500(r, outcome[r].msg)

\* C10: each local request issues at most one remote call and gets at most
\* one response, and once its remote call has ended, with a response or a
\* transport error, it gets exactly one response, which reports that end.
C10_FireOnce ==
    /\ [](\A r \in Reqs : calls[r] <= 1 /\ nresp[r] <= 1)
    /\ [][\A r \in Reqs : calls[r] = 1 /\ pc'[r] # "idle" => calls'[r] = 1]_vars
    /\ \A r \in Reqs :
          (pc[r] = "remoteDone" /\ remote[r] # None)
             ~> (pc[r] = "done" /\ nresp[r] = 1 /\ remote[r] # None /\ ReportsOutcome(r))

\* one request waits for the remote while another, whose remote call failed
\* in transport, has been answered
C10_Witness ==
    \E r1, r2 \in Reqs :
        /\ r1 # r2
        /\ pc[r1] = "awaitRemote"
        /\ calls[r1] = 1
        /\ pc[r2] = "done"
        /\ calls[r2] = 1
        /\ remote[r2][1] = "error"
        /\ nresp[r2] = 1
        /\ Error500(r2, "socket hang up")

===========================================================================
